---- MODULE Spec2Model ----
(***************************************************************************)
(* Model of src/src/airbnb_prices_analysis.py: a sequential script that    *)
(* loads a table of listings (pandas DataFrame `ad`), cleans it in place,  *)
(* aggregates it and renders charts, a marker map and a printed ranking.   *)
(*                                                                         *)
(* A table is [cols, rows]: cols the set of column labels, rows the        *)
(* sequence of rows in table order, each [idx, val] with idx the index     *)
(* label (pd.read_excel yields a RangeIndex 0..n-1) and val a function     *)
(* from the table's columns to cell values.  Cell values are integers;     *)
(* NaN stands for a missing cell.  A neighbourhood is named by a number,   *)
(* and the order of the numbers is the sort order of the names.            *)
(* A group mean is kept exactly, as [sum, cnt] over the non-missing cells. *)
(***************************************************************************)
EXTENDS Integers, Sequences, FiniteSets, TLC

\* ------------------------------------------------------------------ bounds
MaxRows == 2
HoodSlack == 1

\* --------------------------------------------------------- program constants
NaN == -1
MinimumNightsLimit == 30
PriceLimit == 3000
TopN == 10
BottomN == 5

DroppedAtLoad ==
  {"name", "host_name", "id", "host_id", "neighbourhood_group", "last_review", "license"}

DroppedForNulls == {"reviews_per_month"}

\* Columns a statement of the script refers to by name.
ReferencedColumns ==
  DroppedAtLoad \cup DroppedForNulls \cup
  {"neighbourhood", "latitude", "longitude", "room_type", "price",
   "minimum_nights", "availability_365"}

\* The columns of the input file that no statement refers to by name.
OtherColumns == {"number_of_reviews", "calculated_host_listings_count"}

Schema == ReferencedColumns \cup OtherColumns

\* ------------------------------------------------------------ cell algebra
IsNull(v) == v = NaN

\* A comparison with a missing value is False, as in pandas/numpy.
GtMut(v, k) == ~IsNull(v) /\ v >= k
Gt(v, k) == ~IsNull(v) /\ v > k

\* --------------------------------------------------------------- the table
NoTable == [cols |-> {}, rows |-> <<>>]

Index(t) == [i \in 1..Len(t.rows) |-> t.rows[i].idx]

IndexSet(t) == {t.rows[i].idx : i \in 1..Len(t.rows)}

HasColumns(t, labels) == labels \subseteq t.cols

\* DataFrame.drop(columns=labels): the rows are kept, narrowed to the other columns.
DropColumnsMut(t, labels) ==
  [cols |-> t.cols \ labels,
   rows |-> [i \in 1..(Len(t.rows) - 1) |->
               [idx |-> t.rows[i].idx,
                val |-> [c \in t.cols \ labels |-> t.rows[i].val[c]]]]]
DropColumns(t, labels) ==
  [cols |-> t.cols \ labels,
   rows |-> [i \in 1..Len(t.rows) |->
               [idx |-> t.rows[i].idx,
                val |-> [c \in t.cols \ labels |-> t.rows[i].val[c]]]]]

\* ad[ad.<col> > k].index: the index labels of the rows whose cell is over k.
IndexOverMut(t, col, k) ==
  {t.rows[i].idx : i \in {j \in 1..Len(t.rows) : Gt(t.rows[j].val[col], k + 1)}}
IndexOver(t, col, k) ==
  {t.rows[i].idx : i \in {j \in 1..Len(t.rows) : Gt(t.rows[j].val[col], k)}}

\* DataFrame.drop(labels, axis=0): every row carrying one of the labels goes.
DropIndex(t, labels) ==
  [cols |-> t.cols,
   rows |-> SelectSeq(t.rows, LAMBDA r : r.idx \notin labels)]

\* ------------------------------------------------------------- the inputs
\* What pd.read_excel can return: a row of the file, cell by cell.
Cell(c, s, idx) ==
  CASE c = "neighbourhood" -> s.hood
    [] c = "latitude" -> 100 + idx
    [] c = "longitude" -> 200 + idx
    [] c = "room_type" -> 1 + (idx % 2)
    [] c = "price" -> s.price
    [] c = "minimum_nights" -> s.mn
    [] c = "availability_365" -> s.av
    [] c = "reviews_per_month" -> IF idx % 2 = 0 THEN NaN ELSE 1
    [] OTHER -> 0

MkTable(cols, specs) ==
  [cols |-> cols,
   rows |-> [i \in 1..Len(specs) |->
               [idx |-> i - 1,
                val |-> [c \in cols |-> Cell(c, specs[i], i - 1)]]]]

\* Listings around the two thresholds, with missing prices and nights.
OutlierListings ==
  [hood : 1..2, price : {100, PriceLimit, PriceLimit + 1, NaN},
   mn : {MinimumNightsLimit, MinimumNightsLimit + 1, NaN}, av : {180}]

\* One listing per neighbourhood, cheap and available or dear and booked.
RankedListing(h, dear) ==
  [hood |-> h, price |-> IF dear THEN 200 ELSE 100,
   mn |-> 1, av |-> IF dear THEN 100 ELSE 300]

HoodCounts == {BottomN, BottomN + HoodSlack, TopN + HoodSlack}

\* Tables of up to MaxRows such listings, the first one in neighbourhood 1.
OutlierTables ==
  {MkTable(Schema, s) :
     s \in {q \in UNION {[1..n -> OutlierListings] : n \in 0..MaxRows} :
              q # <<>> => q[1].hood = 1}}

RankedTables ==
  {MkTable(Schema, [h \in DOMAIN d |-> RankedListing(h, d[h])]) :
     d \in UNION {[1..n -> BOOLEAN] : n \in HoodCounts}}

ColumnSets == {Schema \ {c} : c \in Schema} \cup {Schema \cup {"extra_column"}}

OddSchemaTables ==
  {MkTable(cols, s) : cols \in ColumnSets,
                      s \in UNION {[1..n -> OutlierListings] : n \in 0..1}}

InputTables == OutlierTables \cup RankedTables \cup OddSchemaTables

\* ------------------------------------------------------------ aggregation
Min(a, b) == IF a <= b THEN a ELSE b

\* The elements of a set of numbers, ascending (groupby sorts its keys).
SortedSeq(S) ==
  [i \in 1..Cardinality(S) |-> CHOOSE x \in S : Cardinality({y \in S : y < x}) = i - 1]

RECURSIVE SumCells(_)
SumCells(s) == IF s = <<>> THEN 0 ELSE Head(s) + SumCells(Tail(s))

\* The non-missing cells of column col in the rows whose key cell equals k.
GroupCells(t, key, k, col) ==
  LET members == SelectSeq(t.rows, LAMBDA r : r.val[key] = k)
      cells == [i \in 1..Len(members) |-> members[i].val[col]]
  IN SelectSeq(cells, LAMBDA v : ~IsNull(v))

\* ad.groupby(key)[col].mean(): one entry per non-missing key, keys ascending;
\* the mean skips missing cells and is missing (cnt = 0) when there is none.
GroupMean(t, key, col) ==
  LET keys == SortedSeq({t.rows[i].val[key] : i \in 1..Len(t.rows)} \ {NaN})
  IN [i \in 1..Len(keys) |->
        [key |-> keys[i],
         sum |-> SumCells(GroupCells(t, key, keys[i], col)),
         cnt |-> Len(GroupCells(t, key, keys[i], col))]]

MeanIsNull(m) == m.cnt = 0

MeanGt(a, b) == ~MeanIsNull(a) /\ ~MeanIsNull(b) /\ a.sum * b.cnt > b.sum * a.cnt

MeanEq(a, b) ==
  \/ MeanIsNull(a) /\ MeanIsNull(b)
  \/ ~MeanIsNull(a) /\ ~MeanIsNull(b) /\ a.sum * b.cnt = b.sum * a.cnt

\* Whether entry j comes before entry i in nlargest's order: larger means first,
\* equal means in their original order (keep='first'), missing means last.
BeforeLargest(s, j, i) ==
  \/ ~MeanIsNull(s[j]) /\ MeanIsNull(s[i])
  \/ MeanGt(s[j], s[i])
  \/ MeanEq(s[j], s[i]) /\ j < i

BeforeSmallest(s, j, i) ==
  \/ ~MeanIsNull(s[j]) /\ MeanIsNull(s[i])
  \/ MeanGt(s[i], s[j])
  \/ MeanEq(s[j], s[i]) /\ j < i

\* nlargest(n, ...): the first n entries in that order, all of them when there
\* are fewer than n.
NLargestMut(n, s) ==
  [k \in 1..Min(n + 1, Len(s)) |->
     s[CHOOSE i \in 1..Len(s) :
         Cardinality({j \in 1..Len(s) : BeforeLargest(s, j, i)}) = k - 1]]
NLargest(n, s) ==
  [k \in 1..Min(n, Len(s)) |->
     s[CHOOSE i \in 1..Len(s) :
         Cardinality({j \in 1..Len(s) : BeforeLargest(s, j, i)}) = k - 1]]

NSmallestMut(n, s) ==
  [k \in 1..Min(n, Len(s)) |->
     s[CHOOSE i \in 1..Len(s) :
         Cardinality({j \in 1..Len(s) : BeforeLargest(s, j, i)}) = k - 1]]
NSmallest(n, s) ==
  [k \in 1..Min(n, Len(s)) |->
     s[CHOOSE i \in 1..Len(s) :
         Cardinality({j \in 1..Len(s) : BeforeSmallest(s, j, i)}) = k - 1]]

Keys(s) == {s[i].key : i \in 1..Len(s)}

\* num/den rounded to the nearest integer, halves to the even neighbour, as
\* Python's format() rounds the exactly representable halves.
RoundHalfEven(num, den) ==
  LET q == num \div den
      r == num % den
  IN IF 2 * r < den THEN q
     ELSE IF 2 * r > den THEN q + 1
     ELSE IF q % 2 = 0 THEN q ELSE q + 1

\* f"{mean:.2f}": the mean in hundredths; f"{mean:.0f}": in units.
Format2f(m) == IF MeanIsNull(m) THEN NaN ELSE RoundHalfEven(100 * m.sum, m.cnt)

Format0f(m) == IF MeanIsNull(m) THEN NaN ELSE RoundHalfEven(m.sum, m.cnt)

\* ad[ad['neighbourhood'] == bairro].iloc[0]: the first row, in table order,
\* of the neighbourhood.
FirstListingMut(t, bairro) ==
  LET members == SelectSeq(t.rows, LAMBDA r : TRUE) IN members[1]
FirstListing(t, bairro) ==
  LET members == SelectSeq(t.rows, LAMBDA r : r.val["neighbourhood"] = bairro)
  IN members[1]

NullCount(t, c) == Cardinality({i \in 1..Len(t.rows) : IsNull(t.rows[i].val[c])})

ValueCount(t, c, v) == Cardinality({i \in 1..Len(t.rows) : t.rows[i].val[c] = v})

\* ---------------------------------------------------------------- the state
VARIABLES
  pc,                            \* the statement about to run, "done" or "failed"
  err,                           \* the exception that ended the run, if any
  ad,                            \* the DataFrame ad
  loaded,                        \* history: the table pd.read_excel returned
  neighborhood_mean_value,       \* line 116
  top_10_neighborhood,           \* line 117
  rio_map,                       \* the markers added to the folium map
  it,                            \* position of the running for loop
  mean_review_per_neighborhood,  \* line 163
  top_5_neighborhood,            \* line 164
  printed,                       \* what print() wrote, in order
  log,                           \* history: the statements executed, with the table each saw
  run                            \* which pass over the cleaning cells is running

vars ==
  <<pc, err, ad, loaded, neighborhood_mean_value, top_10_neighborhood, rio_map, it,
    mean_review_per_neighborhood, top_5_neighborhood, printed, log, run>>

aggregates ==
  <<neighborhood_mean_value, top_10_neighborhood, rio_map, it,
    mean_review_per_neighborhood, top_5_neighborhood>>

NoError == [kind |-> "none", at |-> "none"]

Event(stmt, t) == [stmt |-> stmt, index |-> Index(t), cols |-> t.cols]

Init ==
  /\ pc = "L15"
  /\ err = NoError
  /\ ad = NoTable
  /\ loaded = NoTable
  /\ neighborhood_mean_value = <<>>
  /\ top_10_neighborhood = <<>>
  /\ rio_map = <<>>
  /\ it = 0
  /\ mean_review_per_neighborhood = <<>>
  /\ top_5_neighborhood = <<>>
  /\ printed = <<>>
  /\ log = <<>>
  /\ run = 1

\* An uncaught exception ends the script: nothing is caught anywhere in it.
RaiseMut(kind) ==
  /\ pc' = "L15"
  /\ err' = [kind |-> kind, at |-> pc]
  /\ UNCHANGED <<ad, loaded, aggregates, printed, log, run>>
Raise(kind) ==
  /\ pc' = "failed"
  /\ err' = [kind |-> kind, at |-> pc]
  /\ UNCHANGED <<ad, loaded, aggregates, printed, log, run>>

\* A statement that only reads the table: it raises when a column it names is
\* absent, and otherwise shows what it computed from the table as it is now.
ShowMut(stmt, next, refs, kind) ==
  /\ IF HasColumns(ad, refs)
       THEN /\ pc' = next
            /\ ad' = DropColumns(ad, refs)
            /\ log' = Append(log, Event(stmt, ad))
            /\ UNCHANGED <<err, loaded, aggregates, printed, run>>
       ELSE Raise(kind)
Show(stmt, next, refs, kind) ==
  /\ IF HasColumns(ad, refs)
       THEN /\ pc' = next
            /\ log' = Append(log, Event(stmt, ad))
            /\ UNCHANGED <<err, ad, loaded, aggregates, printed, run>>
       ELSE Raise(kind)

\* ------------------------------------------------------------------ Loader
\* line 15: ad = pd.read_excel(...)
ReadExcel ==
  /\ pc = "L15"
  /\ \/ Raise("FileNotFoundError")
     \/ Raise("ParseError")
     \/ \E t \in InputTables :
          /\ ad' = t
          /\ loaded' = t
          /\ pc' = "L16"
          /\ log' = Append(log, Event("L15", t))
          /\ UNCHANGED <<err, aggregates, printed, run>>

\* line 16: ad.head()
HeadRows ==
  /\ pc = "L16"
  /\ Show("L16", "L27", {}, "KeyError")

\* ------------------------------------------------------------------ Cleaner
\* line 27: ad.drop(columns=[...], inplace=True); errors='raise' is the default.
DropIdentifierColumnsMut ==
  /\ pc = "L27"
  /\ ad' = DropColumns(ad, DroppedAtLoad)
  /\ pc' = "L28"
  /\ log' = Append(log, Event("L27", ad'))
  /\ UNCHANGED <<err, loaded, aggregates, printed, run>>
DropIdentifierColumns ==
  /\ pc = "L27"
  /\ IF HasColumns(ad, DroppedAtLoad)
       THEN /\ ad' = DropColumns(ad, DroppedAtLoad)
            /\ pc' = "L28"
            /\ log' = Append(log, Event("L27", ad'))
            /\ UNCHANGED <<err, loaded, aggregates, printed, run>>
       ELSE Raise("KeyError")

\* line 28: ad.describe()
Describe ==
  /\ pc = "L28"
  /\ Show("L28", "L39", {}, "KeyError")

\* line 39: ad.minimum_nights.plot(kind='box', ...)
BoxPlotMinimumNights ==
  /\ pc = "L39"
  /\ Show("L39", "L45", {"minimum_nights"}, "AttributeError")

\* line 45: ad.drop(ad[ad.minimum_nights > 30].index, axis=0, inplace=True)
DropLongStays ==
  /\ pc = "L45"
  /\ IF HasColumns(ad, {"minimum_nights"})
       THEN /\ ad' = DropIndex(ad, IndexOver(ad, "minimum_nights", MinimumNightsLimit))
            /\ pc' = "L48"
            /\ log' = Append(log, Event("L45", ad'))
            /\ UNCHANGED <<err, loaded, aggregates, printed, run>>
       ELSE Raise("AttributeError")

\* line 48: ad.price.plot(kind='box', ...)
BoxPlotPrice ==
  /\ pc = "L48"
  /\ Show("L48", "L54", {"price"}, "AttributeError")

\* line 54: ad.drop(ad[ad.price > 3000].index, axis=0, inplace=True)
DropExpensive ==
  /\ pc = "L54"
  /\ IF HasColumns(ad, {"price"})
       THEN /\ ad' = DropIndex(ad, IndexOver(ad, "price", PriceLimit))
            /\ pc' = "L62"
            /\ log' = Append(log, Event("L54", ad'))
            /\ UNCHANGED <<err, loaded, aggregates, printed, run>>
       ELSE Raise("AttributeError")

\* lines 62-63: print(ad.isnull().sum())
PrintNulls ==
  /\ pc = "L62"
  /\ pc' = "L69"
  /\ printed' = Append(printed,
       [line |-> "L63", body |-> [c \in ad.cols |-> NullCount(ad, c)]])
  /\ log' = Append(log, Event("L62", ad))
  /\ UNCHANGED <<err, ad, loaded, aggregates, run>>

\* line 69: ad.drop(columns=['reviews_per_month'], inplace=True)
DropReviewsPerMonthMut ==
  /\ pc = "L69"
  /\ IF HasColumns(ad, DroppedForNulls)
       THEN /\ pc' = "L78"
            /\ log' = Append(log, Event("L69", ad))
            /\ UNCHANGED <<err, ad, loaded, aggregates, printed, run>>
       ELSE Raise("KeyError")
DropReviewsPerMonth ==
  /\ pc = "L69"
  /\ IF HasColumns(ad, DroppedForNulls)
       THEN /\ ad' = DropColumns(ad, DroppedForNulls)
            /\ pc' = "L78"
            /\ log' = Append(log, Event("L69", ad'))
            /\ UNCHANGED <<err, loaded, aggregates, printed, run>>
       ELSE Raise("KeyError")

\* -------------------------------------------------- Aggregator and Presenter
\* line 78: ad.plot(kind='scatter', x='longitude', y='latitude', alpha=0.1)
ScatterPlot ==
  /\ pc = "L78"
  /\ Show("L78", "L84", {"longitude", "latitude"}, "KeyError")

\* line 84: the same scatter plot, coloured by ad['price']
ScatterPlotByPrice ==
  /\ pc = "L84"
  /\ Show("L84", "L92", {"longitude", "latitude", "price"}, "KeyError")

\* lines 92-93: correlacao = ad.corr(); correlacao['price'].sort_values(...)
\* (the coefficients themselves are not modelled)
Correlation ==
  /\ pc = "L92"
  /\ Show("L92", "L101", {"price"}, "KeyError")

\* line 101: print(ad['room_type'].value_counts())
PrintRoomTypeCounts ==
  /\ pc = "L101"
  /\ IF HasColumns(ad, {"room_type"})
       THEN /\ pc' = "L107"
            /\ printed' = Append(printed,
                 [line |-> "L101",
                  body |-> [v \in {ad.rows[i].val["room_type"] : i \in 1..Len(ad.rows)}
                              |-> ValueCount(ad, "room_type", v)]])
            /\ log' = Append(log, Event("L101", ad))
            /\ UNCHANGED <<err, ad, loaded, aggregates, run>>
       ELSE Raise("KeyError")

\* line 107: print(ad.groupby('room_type')['price'].mean())
PrintRoomTypeMean ==
  /\ pc = "L107"
  /\ IF HasColumns(ad, {"room_type", "price"})
       THEN /\ pc' = "L116"
            /\ printed' = Append(printed,
                 [line |-> "L107", body |-> GroupMean(ad, "room_type", "price")])
            /\ log' = Append(log, Event("L107", ad))
            /\ UNCHANGED <<err, ad, loaded, aggregates, run>>
       ELSE Raise("KeyError")

\* line 116: neighborhood_mean_value = ad.groupby('neighbourhood')['price'].mean().reset_index()
NeighborhoodMeanValue ==
  /\ pc = "L116"
  /\ IF HasColumns(ad, {"neighbourhood", "price"})
       THEN /\ neighborhood_mean_value' = GroupMean(ad, "neighbourhood", "price")
            /\ pc' = "L117"
            /\ log' = Append(log, Event("L116", ad))
            /\ UNCHANGED <<err, ad, loaded, top_10_neighborhood, rio_map, it,
                           mean_review_per_neighborhood, top_5_neighborhood,
                           printed, run>>
       ELSE Raise("KeyError")

\* line 117: top_10_neighborhood = neighborhood_mean_value.nlargest(10, 'price')
Top10Neighborhood ==
  /\ pc = "L117"
  /\ top_10_neighborhood' = NLargest(TopN, neighborhood_mean_value)
  /\ pc' = "L121"
  /\ log' = Append(log, Event("L117", ad))
  /\ UNCHANGED <<err, ad, loaded, neighborhood_mean_value, rio_map, it,
                 mean_review_per_neighborhood, top_5_neighborhood, printed, run>>

\* lines 121-130: sb.barplot(..., data=top_10_neighborhood, ...); plt.show()
BarPlot ==
  /\ pc = "L121"
  /\ Show("L121", "L137", {}, "KeyError")

\* line 137: rio_map = folium.Map(...); the for loop of line 140 starts
CreateMap ==
  /\ pc = "L137"
  /\ rio_map' = <<>>
  /\ it' = 1
  /\ pc' = "L140"
  /\ log' = Append(log, Event("L137", ad))
  /\ UNCHANGED <<err, ad, loaded, neighborhood_mean_value, top_10_neighborhood,
                 mean_review_per_neighborhood, top_5_neighborhood, printed, run>>

\* lines 140-154: one turn of the loop over neighborhood_mean_value.iterrows(),
\* or its end
AddMarker ==
  /\ pc = "L140"
  /\ IF it > Len(neighborhood_mean_value)
       THEN /\ pc' = "L157"
            /\ UNCHANGED <<err, ad, loaded, aggregates, printed, log, run>>
       ELSE LET row == neighborhood_mean_value[it]
                bairro == row.key
                icone == IF bairro \in Keys(top_10_neighborhood) THEN "red" ELSE "blue"
            IN IF HasColumns(ad, {"neighbourhood", "latitude", "longitude"})
                 THEN /\ rio_map' = Append(rio_map,
                           [bairro |-> bairro,
                            popup |-> [neighbourhood |-> bairro, price |-> Format2f(row)],
                            color |-> icone,
                            location |-> <<FirstListing(ad, bairro).val["latitude"],
                                           FirstListing(ad, bairro).val["longitude"]>>])
                      /\ it' = it + 1
                      /\ pc' = "L140"
                      /\ log' = Append(log, Event("L140", ad))
                      /\ UNCHANGED <<err, ad, loaded, neighborhood_mean_value,
                                     top_10_neighborhood, mean_review_per_neighborhood,
                                     top_5_neighborhood, printed, run>>
                 ELSE Raise("KeyError")

\* line 157: display(rio_map)
DisplayMap ==
  /\ pc = "L157"
  /\ Show("L157", "L163", {}, "KeyError")

\* line 163: mean_review_per_neighborhood = ad.groupby('neighbourhood')['availability_365'].mean()
MeanReviewPerNeighborhood ==
  /\ pc = "L163"
  /\ IF HasColumns(ad, {"neighbourhood", "availability_365"})
       THEN /\ mean_review_per_neighborhood' =
                 GroupMean(ad, "neighbourhood", "availability_365")
            /\ pc' = "L164"
            /\ log' = Append(log, Event("L163", ad))
            /\ UNCHANGED <<err, ad, loaded, neighborhood_mean_value, top_10_neighborhood,
                           rio_map, it, top_5_neighborhood, printed, run>>
       ELSE Raise("KeyError")

\* line 164: top_5_neighborhood = mean_review_per_neighborhood.nsmallest(5)
Top5Neighborhood ==
  /\ pc = "L164"
  /\ top_5_neighborhood' = NSmallest(BottomN, mean_review_per_neighborhood)
  /\ pc' = "L165"
  /\ log' = Append(log, Event("L164", ad))
  /\ UNCHANGED <<err, ad, loaded, neighborhood_mean_value, top_10_neighborhood,
                 rio_map, it, mean_review_per_neighborhood, printed, run>>

\* lines 165-166: the heading and the empty line; the for loop of line 167 starts
PrintHeading ==
  /\ pc = "L165"
  /\ printed' = Append(printed, [line |-> "L165", body |-> <<>>])
  /\ it' = 1
  /\ pc' = "L167"
  /\ log' = Append(log, Event("L165", ad))
  /\ UNCHANGED <<err, ad, loaded, neighborhood_mean_value, top_10_neighborhood,
                 rio_map, mean_review_per_neighborhood, top_5_neighborhood, run>>

\* lines 167-168: one turn of the loop over top_5_neighborhood.items(), or its
\* end, which ends the script
PrintRanking ==
  /\ pc = "L167"
  /\ IF it > Len(top_5_neighborhood)
       THEN /\ pc' = "done"
            /\ UNCHANGED <<err, ad, loaded, aggregates, printed, log, run>>
       ELSE /\ printed' = Append(printed,
                 [line |-> "L168",
                  body |-> [neighborhood |-> top_5_neighborhood[it].key,
                            mean |-> Format0f(top_5_neighborhood[it])]])
            /\ it' = it + 1
            /\ pc' = "L167"
            /\ log' = Append(log, Event("L167", ad))
            /\ UNCHANGED <<err, ad, loaded, neighborhood_mean_value, top_10_neighborhood,
                           rio_map, mean_review_per_neighborhood, top_5_neighborhood,
                           run>>

\* ------------------------------------------------------- the specifications
Cleaning ==
  \/ DropIdentifierColumns
  \/ Describe
  \/ BoxPlotMinimumNights
  \/ DropLongStays
  \/ BoxPlotPrice
  \/ DropExpensive
  \/ PrintNulls
  \/ DropReviewsPerMonth

Next ==
  \/ ReadExcel
  \/ HeadRows
  \/ Cleaning
  \/ ScatterPlot
  \/ ScatterPlotByPrice
  \/ Correlation
  \/ PrintRoomTypeCounts
  \/ PrintRoomTypeMean
  \/ NeighborhoodMeanValue
  \/ Top10Neighborhood
  \/ BarPlot
  \/ CreateMap
  \/ AddMarker
  \/ DisplayMap
  \/ MeanReviewPerNeighborhood
  \/ Top5Neighborhood
  \/ PrintHeading
  \/ PrintRanking

\* The script, run once from top to bottom.
Spec == Init /\ [][Next]_vars

\* The cells of the "Data cleaning" section run a second time on the table the
\* first pass left.
RerunCleaner ==
  /\ pc = "L78"
  /\ run = 1
  /\ run' = 2
  /\ pc' = "L27"
  /\ UNCHANGED <<err, ad, loaded, aggregates, printed, log>>

NextRerun ==
  \/ ReadExcel
  \/ HeadRows
  \/ Cleaning
  \/ RerunCleaner

SpecRerun == Init /\ [][NextRerun]_vars

\* =================================================================== claims
Logged(stmt) == \E i \in 1..Len(log) : log[i].stmt = stmt

\* The Cleaner's last step (line 69) has run.
CleaningDone == Logged("L69")

\* The row of the loaded table that carries index label x: read_excel labels
\* the rows 0, 1, 2, ... in file order.
LoadedRow(x) == loaded.rows[x + 1]

NotOver(v, k) == v = NaN \/ v <= k

Within(v, k) == v # NaN /\ v <= k

\* C1 as stated: once cleaning has ended, and in every later state, every
\* retained listing has minimum_nights <= 30 and price <= 3000.
C1_AllWithinLimits ==
  CleaningDone =>
    \A i \in 1..Len(ad.rows) :
      /\ Within(ad.rows[i].val["minimum_nights"], 30)
      /\ Within(ad.rows[i].val["price"], 3000)

\* C1 amended: once cleaning has ended, and in every later state, no retained
\* listing has minimum_nights over 30 or price over 3000: each of the two cells
\* is within its limit or missing.
C1_NoneOverLimits ==
  CleaningDone =>
    \A i \in 1..Len(ad.rows) :
      /\ NotOver(ad.rows[i].val["minimum_nights"], 30)
      /\ NotOver(ad.rows[i].val["price"], 3000)

C1_Witness ==
  /\ pc = "done"
  /\ Len(ad.rows) = 1
  /\ Len(loaded.rows) = 2
  /\ ad.rows[1].val["price"] = NaN

\* C2 as stated: a loaded row is in the cleaned table if and only if its
\* minimum_nights <= 30 and its price <= 3000.
C2_RetainedIffWithin ==
  CleaningDone =>
    \A i \in 1..Len(loaded.rows) :
      (loaded.rows[i].idx \in IndexSet(ad)) <=>
        /\ Within(loaded.rows[i].val["minimum_nights"], 30)
        /\ Within(loaded.rows[i].val["price"], 3000)

\* C2 amended: a loaded row is in the cleaned table if and only if neither its
\* minimum_nights is over 30 nor its price is over 3000, a missing cell being
\* over no limit; the retained rows keep their order and their index labels
\* are distinct.
C2_RetainedIffNotOver ==
  CleaningDone =>
    /\ \A i \in 1..Len(loaded.rows) :
         (loaded.rows[i].idx \in IndexSet(ad)) <=>
           /\ NotOver(loaded.rows[i].val["minimum_nights"], 30)
           /\ NotOver(loaded.rows[i].val["price"], 3000)
    /\ \A i, j \in 1..Len(ad.rows) : i < j => ad.rows[i].idx < ad.rows[j].idx

C2_Witness ==
  /\ CleaningDone
  /\ Len(loaded.rows) = 2
  /\ loaded.rows[1].val["minimum_nights"] = 30
  /\ loaded.rows[1].val["price"] = 3000
  /\ loaded.rows[1].idx \in IndexSet(ad)
  /\ loaded.rows[2].val["minimum_nights"] = 30
  /\ loaded.rows[2].val["price"] = 3001
  /\ loaded.rows[2].idx \notin IndexSet(ad)

\* C3 as stated: after cleaning no column that is left holds a missing value in
\* any retained row.
C3_NoMissingValues ==
  CleaningDone =>
    \A i \in 1..Len(ad.rows) : \A c \in ad.cols : ad.rows[i].val[c] # NaN

\* C3 amended: after cleaning reviews_per_month is gone and every cell that is
\* left is the cell that was loaded, so a retained row has a missing value in a
\* column exactly where the loaded table had one; the cleaned table is free of
\* missing values when reviews_per_month was the only loaded column with any.
C3_OnlyReviewsPerMonthCured ==
  CleaningDone =>
    /\ "reviews_per_month" \notin ad.cols
    /\ \A i \in 1..Len(ad.rows) : \A c \in ad.cols :
         ad.rows[i].val[c] = LoadedRow(ad.rows[i].idx).val[c]
    /\ (\A i \in 1..Len(loaded.rows) : \A c \in loaded.cols \ {"reviews_per_month"} :
          loaded.rows[i].val[c] # NaN)
       => \A i \in 1..Len(ad.rows) : \A c \in ad.cols : ad.rows[i].val[c] # NaN

C3_Witness ==
  /\ CleaningDone
  /\ Len(ad.rows) = 2
  /\ LoadedRow(ad.rows[1].idx).val["reviews_per_month"] = NaN
  /\ ad.rows[2].val["minimum_nights"] = NaN

\* C4: the cleaned table has none of the eight dropped columns and every other
\* column that was loaded; a column drop leaves the rows and their order as they
\* were, and a row filter leaves the columns as they were.
C4_ColumnsAndRowsFramed ==
  /\ [](CleaningDone =>
          /\ ad.cols \cap (DroppedAtLoad \cup {"reviews_per_month"}) = {}
          /\ ad.cols = loaded.cols \ (DroppedAtLoad \cup {"reviews_per_month"}))
  /\ [][/\ pc \in {"L27", "L69"} => Index(ad') = Index(ad)
        /\ pc \in {"L45", "L54"} => ad'.cols = ad.cols]_vars

C4_Witness ==
  /\ pc = "L78"
  /\ "extra_column" \in ad.cols
  /\ "number_of_reviews" \in ad.cols
  /\ Len(ad.rows) = 1

\* The neighbourhoods of a table, and the exact sum and number of the
\* non-missing cells of a column over the listings of one of them.
Hoods(t) == {t.rows[i].val["neighbourhood"] : i \in 1..Len(t.rows)}

Members(t, h, col) ==
  {i \in 1..Len(t.rows) : t.rows[i].val["neighbourhood"] = h /\ t.rows[i].val[col] # NaN}

RECURSIVE SumOver(_, _, _)
SumOver(t, col, I) ==
  IF I = {} THEN 0
  ELSE LET i == CHOOSE x \in I : TRUE
       IN t.rows[i].val[col] + SumOver(t, col, I \ {i})

\* Whether entry e carries the mean of column col over neighbourhood e.key.
IsMeanOf(e, t, col) ==
  LET I == Members(t, e.key, col)
  IN e.cnt = Cardinality(I) /\ e.sum = SumOver(t, col, I)

\* Mean a is strictly greater than mean b, both present.
Greater(a, b) == a.cnt > 0 /\ b.cnt > 0 /\ a.sum * b.cnt > b.sum * a.cnt

\* The scenario of the specification: neighbourhood A = 1 with prices 100 and
\* 200, neighbourhood B = 2 with price 300.
ScenarioTable ==
  MkTable(Schema, <<[hood |-> 1, price |-> 100, mn |-> 1, av |-> 1],
                    [hood |-> 1, price |-> 200, mn |-> 1, av |-> 1],
                    [hood |-> 2, price |-> 300, mn |-> 1, av |-> 1]>>)

\* C5: once line 117 has run, top_10_neighborhood has exactly min(10, number
\* of neighbourhoods of the cleaned table) entries, each a different
\* neighbourhood of the cleaned table with its mean price, in descending order
\* of mean price (entries without a mean last), and no neighbourhood left out
\* has a mean price strictly greater than one that is in; in the scenario the
\* means are A = 150 and B = 300 and the top 1 is B.
C5_Top10ByPrice ==
  /\ Logged("L117") =>
       LET top == top_10_neighborhood
           n == Len(top)
       IN /\ n = Min(10, Cardinality(Hoods(ad)))
          /\ n <= 10
          /\ \A i \in 1..n : top[i].key \in Hoods(ad) /\ IsMeanOf(top[i], ad, "price")
          /\ \A i, j \in 1..n : i < j =>
               /\ top[i].key # top[j].key
               /\ ~Greater(top[j], top[i])
               /\ top[i].cnt = 0 => top[j].cnt = 0
          /\ \A h \in Hoods(ad) \ {top[i].key : i \in 1..n} :
               LET out == [sum |-> SumOver(ad, "price", Members(ad, h, "price")),
                           cnt |-> Cardinality(Members(ad, h, "price"))]
               IN \A i \in 1..n : ~Greater(out, top[i])
  /\ LET m == GroupMean(ScenarioTable, "neighbourhood", "price")
     IN /\ Len(m) = 2
        /\ m[1].key = 1 /\ m[1].sum = 150 * m[1].cnt
        /\ m[2].key = 2 /\ m[2].sum = 300 * m[2].cnt
        /\ NLargest(1, m) = <<m[2]>>

\* Eleven neighbourhoods, and the one left out ties with the last one taken.
C5_Witness ==
  /\ pc = "done"
  /\ Len(neighborhood_mean_value) = 11
  /\ Len(top_10_neighborhood) = 10
  /\ top_10_neighborhood[1].sum = 200
  /\ top_10_neighborhood[10].sum = 100
  /\ \E i \in 1..11 :
       /\ neighborhood_mean_value[i].key \notin Keys(top_10_neighborhood)
       /\ neighborhood_mean_value[i].sum = 100

RankingLines == SelectSeq(printed, LAMBDA l : l.line = "L168")

\* C6: once line 164 has run, top_5_neighborhood has exactly min(5, number of
\* neighbourhoods of the cleaned table) entries, each a different neighbourhood
\* of the cleaned table with its mean availability_365, in ascending order of
\* that mean, and no neighbourhood left out has a mean strictly smaller than
\* one that is in; when the script is done the printed ranking names the same
\* neighbourhoods in the same order.
C6_Bottom5ByAvailability ==
  /\ Logged("L164") =>
       LET low == top_5_neighborhood
           n == Len(low)
       IN /\ n = Min(5, Cardinality(Hoods(ad)))
          /\ n <= 5
          /\ \A i \in 1..n :
               low[i].key \in Hoods(ad) /\ IsMeanOf(low[i], ad, "availability_365")
          /\ \A i, j \in 1..n : i < j =>
               /\ low[i].key # low[j].key
               /\ ~Greater(low[i], low[j])
          /\ \A h \in Hoods(ad) \ {low[i].key : i \in 1..n} :
               LET out == [sum |-> SumOver(ad, "availability_365",
                                           Members(ad, h, "availability_365")),
                           cnt |-> Cardinality(Members(ad, h, "availability_365"))]
               IN \A i \in 1..n : ~Greater(low[i], out)
  /\ pc = "done" =>
       /\ Len(RankingLines) = Len(top_5_neighborhood)
       /\ \A i \in 1..Len(RankingLines) :
            RankingLines[i].body.neighborhood = top_5_neighborhood[i].key

C6_Witness ==
  /\ pc = "done"
  /\ Len(mean_review_per_neighborhood) = 6
  /\ Len(RankingLines) = 5
  /\ top_5_neighborhood[1].sum = 100
  /\ top_5_neighborhood[5].sum = 300
  /\ top_5_neighborhood[1].key > top_5_neighborhood[5].key

\* C10: once the loop of line 140 has ended, the map holds exactly one marker
\* per neighbourhood of the cleaned table; each marker stands at the latitude
\* and longitude of a listing of the cleaned table that belongs to its
\* neighbourhood, is red if the neighbourhood is in top_10_neighborhood and
\* blue otherwise, so at most 10 are red, and its popup carries the
\* neighbourhood and its mean price to the nearest hundredth.
C10_OneMarkerPerNeighbourhood ==
  Logged("L157") =>
    /\ Len(rio_map) = Cardinality(Hoods(ad))
    /\ {rio_map[i].bairro : i \in 1..Len(rio_map)} = Hoods(ad)
    /\ Cardinality({i \in 1..Len(rio_map) : rio_map[i].color = "red"}) <= 10
    /\ \A i \in 1..Len(rio_map) :
         LET m == rio_map[i]
             I == Members(ad, m.bairro, "price")
             total == SumOver(ad, "price", I)
             count == Cardinality(I)
         IN /\ \E r \in 1..Len(ad.rows) :
                 /\ ad.rows[r].val["neighbourhood"] = m.bairro
                 /\ ad.rows[r].idx \in IndexSet(loaded)
                 /\ m.location = <<ad.rows[r].val["latitude"], ad.rows[r].val["longitude"]>>
            /\ m.color \in {"red", "blue"}
            /\ m.color = "red" <=> m.bairro \in Keys(top_10_neighborhood)
            /\ m.popup.neighbourhood = m.bairro
            /\ IF count = 0 THEN m.popup.price = NaN
               ELSE /\ 2 * (100 * total - m.popup.price * count) <= count
                    /\ 2 * (m.popup.price * count - 100 * total) <= count

\* A neighbourhood whose first loaded listing was filtered out.
C10_SecondListingStands ==
  /\ pc = "done"
  /\ Len(rio_map) = 1
  /\ Len(loaded.rows) = 2
  /\ rio_map[1].location = <<101, 201>>
  /\ rio_map[1].color = "red"
  /\ rio_map[1].popup.price = 300000

\* Eleven markers, ten red and one blue.
C10_Witness ==
  /\ pc = "done"
  /\ Len(rio_map) = 11
  /\ Cardinality({i \in 1..Len(rio_map) : rio_map[i].color = "blue"}) = 1

LogStmts == [i \in 1..Len(log) |-> log[i].stmt]

Repeat(x, n) == [i \in 1..n |-> x]

\* The statements of a whole run, in the order of the script, a loop body once
\* per item.
WholeRun ==
  <<"L15", "L16", "L27", "L28", "L39", "L45", "L48", "L54", "L62", "L69", "L78",
    "L84", "L92", "L101", "L107", "L116", "L117", "L121", "L137">>
  \o Repeat("L140", Len(neighborhood_mean_value))
  \o <<"L157", "L163", "L164", "L165">>
  \o Repeat("L167", Len(top_5_neighborhood))

\* The columns the Cleaner's four steps name.
CleanerColumns ==
  {"name", "host_name", "id", "host_id", "neighbourhood_group", "last_review",
   "license", "minimum_nights", "price", "reviews_per_month"}

\* C8 as stated: a run fails only if the Loader fails or a column named by a
\* Cleaner step is absent; every other run reaches completion.
C8_OnlyLoaderOrCleanerFails ==
  pc = "failed" => err.at = "L15" \/ ~(CleanerColumns \subseteq loaded.cols)

\* C8 amended: every failure is fatal and stops the script at the first failing
\* statement: when the Loader fails or any statement, of the Cleaner or after
\* it, names an absent column, nothing runs after it (no statement is enabled,
\* so no mutation, chart, marker or printed line follows) and nothing is
\* retried; the statements that ran are a prefix of the script in order, each
\* once; a run that has not failed can always take its next step, and a run
\* that is done has run every statement once with every named column present.
C8_FailStop ==
  /\ (pc = "failed") <=> (err # NoError)
  /\ LET whole == WholeRun
     IN /\ Len(log) <= Len(whole)
        /\ LogStmts = SubSeq(whole, 1, Len(log))
        /\ pc = "failed" => err.at = whole[Len(log) + 1]
        /\ pc = "done" => Len(log) = Len(whole)
  /\ pc = "failed" =>
       /\ ~ENABLED Next
       /\ err.at = "L15" \/ ~(ReferencedColumns \subseteq loaded.cols)
       /\ err.at = "L15" <=> err.kind \in {"FileNotFoundError", "ParseError"}
  /\ pc = "done" => ReferencedColumns \subseteq loaded.cols
  /\ pc \notin {"done", "failed"} => ENABLED Next

\* Every Cleaner column is there and the run still fails, at line 101.
C8_Witness ==
  /\ pc = "failed"
  /\ err.at = "L101"
  /\ CleanerColumns \subseteq loaded.cols
  /\ Len(log) = 13

ReadOnlyStmts ==
  {"L78", "L84", "L92", "L101", "L107", "L116", "L117", "L121", "L137", "L140",
   "L157", "L163", "L164", "L165", "L167"}

\* C9 as stated: every Aggregator and Presenter step, the two box plots
\* included, executes after the Cleaner's last mutation (line 69).
C9_AllAfterCleaning ==
  \A i \in 1..Len(log) :
    log[i].stmt \in ReadOnlyStmts \cup {"L39", "L48"} =>
      \E j \in 1..(i - 1) : log[j].stmt = "L69"

\* C9 amended: the table is loaded once, by the first statement, and changed
\* only by the Cleaner's two column drops and two row filters; every Aggregator
\* and Presenter step except the two box plots executes after the Cleaner's
\* last mutation and sees the fully cleaned table; the minimum_nights box plot
\* executes after the first column drop and before any row filter and sees
\* every loaded row, and the price box plot executes between the two row
\* filters and sees the rows the minimum_nights filter left.
C9_StageOrder ==
  /\ [](\A i \in 1..Len(log) :
          /\ log[i].stmt = "L15" <=> i = 1
          /\ log[i].stmt \in ReadOnlyStmts =>
               \E j \in 1..(i - 1) :
                 /\ log[j].stmt = "L69"
                 /\ log[i].index = log[j].index
                 /\ log[i].cols = log[j].cols
          /\ log[i].stmt = "L39" =>
               /\ \E j \in 1..(i - 1) : log[j].stmt = "L27"
               /\ \A j \in 1..(i - 1) : log[j].stmt \notin {"L45", "L54", "L69"}
               /\ log[i].index = Index(loaded)
          /\ log[i].stmt = "L48" =>
               /\ \E j \in 1..(i - 1) : log[j].stmt = "L45" /\ log[i].index = log[j].index
               /\ \A j \in 1..(i - 1) : log[j].stmt \notin {"L54", "L69"})
  /\ [][ad' # ad => pc \in {"L15", "L27", "L45", "L54", "L69"}]_vars

\* The minimum_nights box plot drew two listings and cleaning kept one.
C9_Witness ==
  /\ pc = "done"
  /\ Len(ad.rows) = 1
  /\ \E i \in 1..Len(log) : log[i].stmt = "L39" /\ Len(log[i].index) = 2
  /\ \E i \in 1..Len(log) : log[i].stmt = "L48" /\ Len(log[i].index) = 2

\* C7 as stated: the second pass over the Cleaner's steps, on the table the
\* first pass cleaned, completes, and the table has as many rows as before it.
C7_RerunCompletes ==
  run = 2 =>
    /\ pc # "failed"
    /\ Len(ad.rows) = Len(log[Len(log)].index)

\* C7 amended: the second pass over the Cleaner's steps does not complete: its
\* first column drop (line 27) raises column-not-found, which is fatal, and the
\* table stays as the first pass left it, so its row count is unchanged; the two
\* row filters are idempotent by themselves: applied to the cleaned table they
\* remove no row.
C7_RerunFailsAtFirstDrop ==
  /\ run = 2 =>
       /\ pc \in {"L27", "failed"}
       /\ pc = "failed" => err = [kind |-> "KeyError", at |-> "L27"]
       /\ log[Len(log)].stmt = "L69"
       /\ Index(ad) = log[Len(log)].index
       /\ ad.cols = log[Len(log)].cols
  /\ CleaningDone =>
       /\ DropIndex(ad, IndexOver(ad, "minimum_nights", 30)) = ad
       /\ DropIndex(ad, IndexOver(ad, "price", 3000)) = ad

C7_Witness ==
  /\ run = 2
  /\ pc = "failed"
  /\ Len(loaded.rows) = 2
  /\ Len(ad.rows) = 1

====
